---- MODULE Spec2Model ----
(***************************************************************************)
(* LatTest: a kernel module that fires an hrtimer periodically, measures   *)
(* the jitter between consecutive firings and keeps running statistics and *)
(* a histogram; it is controlled through sysfs attributes.                 *)
(*                                                                         *)
(* Two contexts run concurrently: the hrtimer callback                     *)
(* (lattest_timer_function) and the sysfs store callbacks.  The module     *)
(* uses no lock, only volatile variables, so the steps of the two contexts *)
(* interleave; each action below is one group of adjacent source lines.    *)
(*                                                                         *)
(* Times are integers.  The factor between period_ms and the clock is the  *)
(* definition NsPerMs, kept small so that the squares of the jitter stay   *)
(* inside the integer range of the model checker.                          *)
(***************************************************************************)
EXTENDS Integers, Sequences, FiniteSets, TLC

\* ------------------------------------------------------------ constants
HIST_BIN_MAX == 256
\* long long has 30 bits in the model, so that the unsigned word of the same
\* width fits the integers of the model checker: LLONG_MAX stands for 2^63 - 1
LLONG_MAX == 536870911
LLONG_MIN == (-LLONG_MAX) - 1
\* the unsigned word of the same width: U64_MOD stands for 2^64
U64_MOD == 2 * (LLONG_MAX + 1)
U64_HALF == 2^15
EINVAL == 22
hrtimer_resolution == 1
DefaultPeriodMs == 10
DefaultBinNum == 20
DefaultBinWidth == 1000
MaxPeriodMs == 1000

\* ------------------------------------------------------------ bounds
NsPerMs == 12
BootTime == 100
MaxTime == 14000
MaxCmds == 2
MaxFires == 3
MaxTicks == 1
MaxBinWidth == 4
\* do_div divides by an unsigned 32 bit base: the base is taken modulo
\* DoDivBase, which stands for 2^32
DoDivBase == 4096
IsqrtMaxInput == 10000

\* delays by which the clock may advance in one step
Delays == {30, 11040}

\* ------------------------------------------------------------ text input
\* A write to a sysfs attribute is a sequence of characters.
S_stop == <<"s", "t", "o", "p">>
S_infinite == <<"i", "n", "f", "i", "n", "i", "t", "e">>

Min(a, b) == IF a < b THEN a ELSE b
Abs(a) == IF a < 0 THEN -a ELSE a

\* strncmp(buf, kw, n) == 0, for n <= Len(buf)
StrNEq(buf, kw, n) ==
  \A i \in 1..n : i <= Len(kw) /\ i <= Len(buf) /\ buf[i] = kw[i]

IsDigit(c) == c \in {"0", "1", "2", "3", "4", "5", "6", "7", "8", "9"}
DigitVal(c) ==
  CASE c = "0" -> 0 [] c = "1" -> 1 [] c = "2" -> 2 [] c = "3" -> 3
    [] c = "4" -> 4 [] c = "5" -> 5 [] c = "6" -> 6 [] c = "7" -> 7
    [] c = "8" -> 8 [] c = "9" -> 9

RECURSIVE DigitsVal(_)
DigitsVal(s) ==
  IF s = <<>> THEN 0 ELSE DigitsVal(SubSeq(s, 1, Len(s) - 1)) * 10 + DigitVal(s[Len(s)])

\* the text without one trailing newline, which kstrto*() accept
StripNl(s) == IF Len(s) > 0 /\ s[Len(s)] = "\n" THEN SubSeq(s, 1, Len(s) - 1) ELSE s

AllDigits(s) == Len(s) > 0 /\ Len(s) <= 6 /\ \A i \in 1..Len(s) : IsDigit(s[i])

\* kstrtouint(buf, 10, &res): <<ok, value>>; an optional '+', digits, an optional newline
kstrtouint(buf) ==
  LET s == StripNl(buf)
      d == IF Len(s) > 0 /\ s[1] = "+" THEN Tail(s) ELSE s
  IN IF AllDigits(d) THEN <<TRUE, DigitsVal(d)>> ELSE <<FALSE, 0>>

\* kstrtoint(buf, 10, &res): <<ok, value>>; an optional sign, digits, an optional newline
kstrtoint(buf) ==
  LET s == StripNl(buf)
      neg == Len(s) > 0 /\ s[1] = "-"
      d == IF Len(s) > 0 /\ s[1] \in {"+", "-"} THEN Tail(s) ELSE s
  IN IF AllDigits(d) THEN <<TRUE, IF neg THEN -DigitsVal(d) ELSE DigitsVal(d)>>
     ELSE <<FALSE, 0>>

PeriodInputs ==
  { <<"0">>, <<"1", "0", "\n">>, <<"1", "0", "0", "0">>, <<"1", "0", "0", "1">>,
    <<"-", "1">>, <<"x">>, <<>> }

ControlInputs ==
  { S_stop, S_infinite, <<>>, <<"i", "n">>, <<"x">>, <<"0", "\n">>, <<"-", "1">>,
    <<"1", "\n">> }

ConfigInputs == { <<"5", " ", "2">>, <<"0", " ", "2">>, <<>> }

\* ------------------------------------------------------------ state
VARIABLES
  now,                          \* the monotonic clock
  period_ms, runcount, last_now_ns,
  hist_bin_num, hist_bin_width,
  stat_min, stat_max, stat_num, stat_sum, stat_sumsq,
  histogram,
  hr_expires, hr_enqueued,      \* my_hrtimer: its expiry and whether it is queued
  tpc,                          \* the timer callback: its position ...
  t_now_ns, t_period_kt, t_diff_ns, t_rc,   \* ... and its locals
  cpc,                          \* the control context: its position
  lastcmd, ret,                 \* the last sysfs store and what it returned: 0 stands
                                \* for the count of a successful store, else -EINVAL
  ncmds, nfires, nticks,        \* how many stores, firings and clock steps happened
  \* history of the current run, read by the properties only
  g_req,                        \* runcount asked for by the last accepted start
  g_stop,                       \* stop since then: 0 none, 1 while stopped, 2 while running
  g_fires,                      \* firings begun since then
  g_samples,                    \* jitter samples recorded since then
  g_prev,                       \* time of the previous firing begun after that start returned, 0 if none
  g_first, g_per,               \* first deadline and period of this run, once armed
  t_cur,                        \* the firing in progress began after the last accepted start returned
  t_exp0,                       \* expiry of the timer when the firing in progress began
  \* one call of a helper function on its own: which function, its arguments,
  \* whether it has returned, and what it returned
  f_op, f_arg, f_done, f_res,
  \* show_statistics_cb: a value it holds between two reads, and what it reports
  s_tmp,
  r_min, r_max, r_num, r_sum, r_mean, r_sumsq, r_var, r_stddev, r_hist,
  \* the revision of src/lattest/lattest.c: the extremes it keeps with its histogram
  hist_min, hist_max

clockVars == <<now, nticks>>
cfgVars == <<hist_bin_num, hist_bin_width>>
statVars == <<stat_min, stat_max, stat_num, stat_sum, stat_sumsq>>
hrVars == <<hr_expires, hr_enqueued>>
tLocals == <<t_now_ns, t_period_kt, t_diff_ns, t_rc, t_cur, t_exp0>>
ctlVars == <<lastcmd, ret, ncmds>>
runVars == <<g_req, g_stop, g_first, g_per>>
fnVars == <<f_op, f_arg, f_done, f_res>>
showVars == <<s_tmp, r_min, r_max, r_num, r_sum, r_mean, r_sumsq, r_var, r_stddev, r_hist>>
oldVars == <<hist_min, hist_max>>
restVars == <<fnVars, showVars, oldVars>>
vars == <<clockVars, period_ms, runcount, last_now_ns, cfgVars, statVars, histogram,
          hrVars, tpc, tLocals, cpc, ctlVars, nfires, runVars, g_fires, g_samples, g_prev,
          restVars>>

\* ------------------------------------------------------------ helpers
\* a long long seen as unsigned, an unsigned word seen as long long, and the
\* wrapping sum and product of two long long
ToU64(x) == x % U64_MOD
ToLL(u) == IF u > LLONG_MAX THEN u - U64_MOD ELSE u
WrapLL(x) == ToLL(ToU64(x))
MulU64(a, b) ==
  LET al == a % U64_HALF
      ah == a \div U64_HALF
      bl == b % U64_HALF
      bh == b \div U64_HALF
      cross == (ah * bl + al * bh) % U64_HALF
  IN (al * bl + cross * U64_HALF) % U64_MOD
MulLL(a, b) == ToLL(MulU64(ToU64(a), ToU64(b)))

\* HIST_BIN_LOW with the offset of the even layout, (hist_bin_num>>1), for every
\* number of bins
HIST_BIN_LOW_evenonly(i, num, width) ==
  (width \div 2) * (num % 2) + (i - (num \div 2)) * width

\* HIST_BIN_LOW stepping by twice the half width
HIST_BIN_LOW_halfstep(i, num, width) ==
  (width \div 2) * (num % 2) + (i - ((num + 1) \div 2)) * (2 * (width \div 2))

HIST_BIN_LOW(i, num, width) ==
  (width \div 2) * (num % 2) + (i - ((num + 1) \div 2)) * width

\* do_div(a, b) of line 122: the quotient of a by the low 32 bits of b; it is
\* undefined when those bits are all zero
do_div_base(b) == b % DoDivBase
do_div(a, b) == a \div do_div_base(b)

div_ll(n, base) ==
  LET a == Abs(n)
      b == Abs(base)
      q == do_div(a, b)
  IN IF (n < 0) # (base < 0) THEN -q ELSE q

\* the bin choice without the upper clamp of line 215
HistBin_noclamp(diff_ns, num, width) ==
  LET b0 == div_ll(diff_ns - HIST_BIN_LOW(0, num, width), width)
  IN IF b0 < 0 THEN 0 ELSE b0

\* the histogram bin the timer function picks for a jitter sample, lines 213-215
HistBin(diff_ns, num, width) ==
  LET b0 == div_ll(diff_ns - HIST_BIN_LOW(0, num, width), width)
      b1 == IF b0 < 0 THEN 0 ELSE b0
  IN IF b1 >= num THEN num - 1 ELSE b1

\* isqrtu64, lines 148-173. "one" starts at the second-to-top bit of the
\* unsigned word, 1uLL << 62 in the source
ISQRT_ONE == (LLONG_MAX + 1) \div 2

\* lines 154-156
RECURSIVE isqrt_shrink(_, _)
isqrt_shrink(one, op) ==
  IF one > op THEN isqrt_shrink(one \div 4, op) ELSE one

\* lines 158-165: <<op, res>> when the loop ends
RECURSIVE isqrt_loop(_, _, _)
isqrt_loop(op, res, one) ==
  IF one = 0 THEN <<op, res>>
  ELSE IF op >= res + one
       THEN isqrt_loop(op - (res + one), (res + 2 * one) \div 2, one \div 4)
       ELSE isqrt_loop(op, res \div 2, one \div 4)

\* isqrtu64 without the rounding of lines 168-170
isqrtu64_floor(a_nInput) ==
  isqrt_loop(a_nInput, 0, isqrt_shrink(ISQRT_ONE, a_nInput))[2]

isqrtu64(a_nInput) ==
  LET r == isqrt_loop(a_nInput, 0, isqrt_shrink(ISQRT_ONE, a_nInput))
  IN IF r[1] > r[2] THEN r[2] + 1 ELSE r[2]

\* hrtimer_forward(): the expiry after forwarding the timer past tnow; a timer
\* that is queued or not yet expired is left alone
HrtimerForward(expires, enqueued, tnow, period) ==
  LET delta == tnow - expires
      interval == IF period < hrtimer_resolution THEN hrtimer_resolution ELSE period
  IN IF delta < 0 \/ enqueued THEN expires
     ELSE IF delta >= interval
          THEN LET e1 == expires + interval * (delta \div interval)
               IN IF e1 > tnow THEN e1 ELSE e1 + interval
          ELSE expires + interval

ZeroHistogram == [i \in 0..(HIST_BIN_MAX - 1) |-> 0]

\* ------------------------------------------------------------ initial state
\* the statics are zero and lattest_init sets the defaults
LoadedModule ==
  /\ now = BootTime
  /\ period_ms = DefaultPeriodMs
  /\ runcount = 0
  /\ last_now_ns = 0
  /\ hist_bin_num = DefaultBinNum
  /\ hist_bin_width = DefaultBinWidth
  /\ stat_min = 0 /\ stat_max = 0 /\ stat_num = 0 /\ stat_sum = 0 /\ stat_sumsq = 0
  /\ histogram = ZeroHistogram
  /\ hr_expires = 0 /\ hr_enqueued = FALSE
  /\ tpc = "idle"
  /\ t_now_ns = 0 /\ t_period_kt = 0 /\ t_diff_ns = 0 /\ t_rc = 0
  /\ cpc = "idle" /\ lastcmd = "none" /\ ret = 0
  /\ ncmds = 0 /\ nfires = 0 /\ nticks = 0
  /\ g_req = 0 /\ g_stop = 0 /\ g_fires = 0 /\ g_samples = 0 /\ g_prev = 0
  /\ g_first = 0 /\ g_per = 0
  /\ t_cur = FALSE /\ t_exp0 = 0

\* no helper function is called on its own
NoHelperCall ==
  /\ f_op = "none" /\ f_arg = <<>> /\ f_done = FALSE /\ f_res = 0

\* nothing has been reported
NoReport ==
  /\ s_tmp = 0
  /\ r_min = 0 /\ r_max = 0 /\ r_num = 0 /\ r_sum = 0 /\ r_mean = 0
  /\ r_sumsq = 0 /\ r_var = 0 /\ r_stddev = 0
  /\ r_hist = ZeroHistogram

\* src/lattest/lattest.c, lines 75-76: the initializers of hist_min and hist_max
OldExtremes ==
  /\ hist_min = LLONG_MAX
  /\ hist_max = LLONG_MIN

Init ==
  /\ LoadedModule
  /\ NoHelperCall
  /\ NoReport
  /\ OldExtremes

\* ------------------------------------------------------------ the clock
Tick(d) ==
  /\ tpc = "idle" /\ cpc = "idle"
  /\ nticks < MaxTicks
  /\ now + d <= MaxTime
  /\ now' = now + d
  /\ nticks' = nticks + 1
  /\ UNCHANGED <<restVars, period_ms, runcount, last_now_ns, cfgVars, statVars, histogram,
                 hrVars, tpc, tLocals, cpc, ctlVars, nfires, runVars, g_fires,
                 g_samples, g_prev>>

\* the clock reaches the expiry of the queued timer
WaitDeadline ==
  /\ hr_enqueued
  /\ now < hr_expires
  /\ hr_expires <= MaxTime
  /\ now' = hr_expires
  /\ UNCHANGED <<restVars, nticks, period_ms, runcount, last_now_ns, cfgVars, statVars, histogram,
                 hrVars, tpc, tLocals, cpc, ctlVars, nfires, runVars, g_fires,
                 g_samples, g_prev>>

\* ------------------------------------------------------------ the timer callback
\* the hrtimer core dequeues the expired timer and calls its function
Fire_Begin ==
  /\ tpc = "idle"
  /\ hr_enqueued
  /\ hr_expires <= now
  /\ nfires < MaxFires
  /\ hr_enqueued' = FALSE
  /\ tpc' = "enter"
  /\ nfires' = nfires + 1
  /\ g_fires' = g_fires + 1
  /\ t_cur' = (g_first # 0)
  /\ t_exp0' = hr_expires
  /\ UNCHANGED <<restVars, clockVars, period_ms, runcount, last_now_ns, cfgVars, statVars,
                 histogram, hr_expires, t_now_ns, t_period_kt, t_diff_ns, t_rc,
                 cpc, ctlVars, runVars, g_samples, g_prev>>

\* lines 193-197: read the time, forward the timer by the period
Fire_Enter ==
  /\ tpc = "enter"
  /\ t_now_ns' = now
  /\ t_period_kt' = period_ms * NsPerMs
  /\ hr_expires' = HrtimerForward(hr_expires, hr_enqueued, now, period_ms * NsPerMs)
  /\ tpc' = "stats"
  /\ UNCHANGED <<restVars, clockVars, period_ms, runcount, last_now_ns, cfgVars, statVars,
                 histogram, hr_enqueued, t_diff_ns, t_rc, t_cur, t_exp0,
                 cpc, ctlVars, nfires, runVars, g_fires, g_samples, g_prev>>

\* lines 198-209: on every firing but the first, the jitter and the statistics
Fire_Stats ==
  /\ tpc = "stats"
  /\ IF last_now_ns # 0
     THEN LET diff_ns == (t_now_ns - last_now_ns) - period_ms * NsPerMs
          IN /\ stat_min' = IF diff_ns < stat_min THEN diff_ns ELSE stat_min
             /\ stat_max' = IF diff_ns > stat_max THEN diff_ns ELSE stat_max
             /\ stat_num' = stat_num + 1
             /\ stat_sum' = WrapLL(stat_sum + diff_ns)
             /\ stat_sumsq' = WrapLL(stat_sumsq + MulLL(diff_ns, diff_ns))
             /\ t_diff_ns' = diff_ns
             /\ g_samples' = g_samples + 1
             /\ tpc' = "hist"
     ELSE /\ tpc' = "last"
          /\ UNCHANGED <<statVars, t_diff_ns, g_samples>>
  /\ UNCHANGED <<restVars, clockVars, period_ms, runcount, last_now_ns, cfgVars, histogram,
                 hrVars, t_now_ns, t_period_kt, t_rc, t_cur, t_exp0,
                 cpc, ctlVars, nfires, runVars, g_fires, g_prev>>

\* lines 211-216: the histogram
Fire_Hist ==
  /\ tpc = "hist"
  /\ LET hist_bin == HistBin(t_diff_ns, hist_bin_num, hist_bin_width)
     IN histogram' = [histogram EXCEPT ![hist_bin] = @ + 1]
  /\ tpc' = "last"
  /\ UNCHANGED <<restVars, clockVars, period_ms, runcount, last_now_ns, cfgVars, statVars,
                 hrVars, tLocals, cpc, ctlVars, nfires, runVars, g_fires,
                 g_samples, g_prev>>

\* line 218
Fire_Last ==
  /\ tpc = "last"
  /\ last_now_ns' = t_now_ns
  /\ g_prev' = IF t_cur THEN t_now_ns ELSE g_prev
  /\ tpc' = "run"
  /\ UNCHANGED <<restVars, clockVars, period_ms, runcount, cfgVars, statVars, histogram,
                 hrVars, tLocals, cpc, ctlVars, nfires, runVars, g_fires, g_samples>>

\* line 220: the test of runcount
Fire_RunTest ==
  /\ tpc = "run"
  /\ tpc' = IF runcount > 0 THEN "dec_rd" ELSE "zero"
  /\ UNCHANGED <<restVars, clockVars, period_ms, runcount, last_now_ns, cfgVars, statVars,
                 histogram, hrVars, tLocals, cpc, ctlVars, nfires, runVars, g_fires,
                 g_samples, g_prev>>

\* line 222: runcount-- reads the volatile counter ...
Fire_DecRead ==
  /\ tpc = "dec_rd"
  /\ t_rc' = runcount
  /\ tpc' = "dec_wr"
  /\ UNCHANGED <<restVars, clockVars, period_ms, runcount, last_now_ns, cfgVars, statVars,
                 histogram, hrVars, t_now_ns, t_period_kt, t_diff_ns, t_cur, t_exp0,
                 cpc, ctlVars, nfires, runVars, g_fires, g_samples, g_prev>>

\* the hrtimer core after the function returned: HRTIMER_RESTART queues the
\* timer again unless it was queued meanwhile
HrtimerReturn(restart) ==
  /\ hr_enqueued' = (hr_enqueued \/ restart)
  /\ tpc' = "idle"
  /\ t_now_ns' = 0 /\ t_period_kt' = 0 /\ t_diff_ns' = 0 /\ t_rc' = 0
  /\ t_cur' = FALSE /\ t_exp0' = 0

\* ... and writes it back; line 223 returns HRTIMER_RESTART
Fire_DecWrite ==
  /\ tpc = "dec_wr"
  /\ runcount' = t_rc - 1
  /\ HrtimerReturn(TRUE)
  /\ UNCHANGED <<restVars, clockVars, period_ms, last_now_ns, cfgVars, statVars, histogram,
                 hr_expires, cpc, ctlVars, nfires, runVars, g_fires, g_samples, g_prev>>

\* lines 224-230: runcount == 0 ends the run, a negative runcount runs on
Fire_Zero ==
  /\ tpc = "zero"
  /\ HrtimerReturn(runcount # 0)
  /\ UNCHANGED <<restVars, clockVars, period_ms, runcount, last_now_ns, cfgVars, statVars,
                 histogram, hr_expires, cpc, ctlVars, nfires, runVars, g_fires,
                 g_samples, g_prev>>

\* ------------------------------------------------------------ sysfs stores
\* store_period_cb without the upper limit of line 271
store_period_cb_nolimit(buf) ==
  /\ cpc = "idle"
  /\ ncmds < MaxCmds
  /\ ncmds' = ncmds + 1
  /\ lastcmd' = "period"
  /\ LET p == kstrtouint(buf)
     IN IF runcount # 0 \/ ~p[1]
        THEN /\ ret' = -EINVAL
             /\ UNCHANGED period_ms
        ELSE /\ period_ms' = p[2]
             /\ ret' = 0
  /\ UNCHANGED <<restVars, clockVars, runcount, last_now_ns, cfgVars, statVars, histogram,
                 hrVars, tpc, tLocals, cpc, nfires, runVars, g_fires,
                 g_samples, g_prev>>

\* store_period_cb, lines 265-276
store_period_cb(buf) ==
  /\ cpc = "idle"
  /\ ncmds < MaxCmds
  /\ ncmds' = ncmds + 1
  /\ lastcmd' = "period"
  /\ LET p == kstrtouint(buf)
     IN IF runcount # 0 \/ ~p[1] \/ p[2] > MaxPeriodMs
        THEN /\ ret' = -EINVAL
             /\ UNCHANGED period_ms
        ELSE /\ period_ms' = p[2]
             /\ ret' = 0
  /\ UNCHANGED <<restVars, clockVars, runcount, last_now_ns, cfgVars, statVars, histogram,
                 hrVars, tpc, tLocals, cpc, nfires, runVars, g_fires,
                 g_samples, g_prev>>

\* an accepted start opens a new run
NewRun(n) ==
  /\ g_req' = n
  /\ g_stop' = 0
  /\ g_fires' = 0
  /\ g_samples' = 0
  /\ g_prev' = 0
  /\ g_first' = 0
  /\ g_per' = 0
  /\ t_cur' = FALSE

\* store_control_cb without the test for a positive count of line 303
store_control_cb_anycount(buf) ==
  /\ cpc = "idle"
  /\ ncmds < MaxCmds
  /\ ncmds' = ncmds + 1
  /\ lastcmd' = "control"
  /\ LET count == Len(buf)
         n == kstrtoint(buf)
     IN IF StrNEq(buf, S_stop, Min(4, count))
        THEN /\ runcount' = 0
             /\ ret' = 0
             /\ g_stop' = IF runcount # 0 THEN 2 ELSE IF g_stop = 2 THEN 2 ELSE 1
             /\ UNCHANGED <<cpc, g_req, g_first, g_per, g_fires, g_samples,
                            g_prev, t_cur>>
        ELSE IF StrNEq(buf, S_infinite, Min(8, count))
        THEN IF runcount # 0
             THEN /\ ret' = -EINVAL
                  /\ UNCHANGED <<runcount, cpc, runVars, g_fires, g_samples,
                                 g_prev, t_cur>>
             ELSE /\ runcount' = -1
                  /\ cpc' = "start_last"
                  /\ NewRun(-1)
                  /\ UNCHANGED ret
        ELSE IF runcount # 0 \/ ~n[1]
        THEN /\ ret' = -EINVAL
             /\ UNCHANGED <<runcount, cpc, runVars, g_fires, g_samples,
                            g_prev, t_cur>>
        ELSE /\ runcount' = n[2]
             /\ cpc' = "start_last"
             /\ NewRun(n[2])
             /\ UNCHANGED ret
  /\ UNCHANGED <<restVars, clockVars, period_ms, last_now_ns, cfgVars, statVars, histogram,
                 hrVars, tpc, t_now_ns, t_period_kt, t_diff_ns, t_rc, t_exp0, nfires>>

\* store_control_cb whose "stop" is refused when nothing runs
store_control_cb_stoprunning(buf) ==
  /\ cpc = "idle"
  /\ ncmds < MaxCmds
  /\ ncmds' = ncmds + 1
  /\ lastcmd' = "control"
  /\ LET count == Len(buf)
         n == kstrtoint(buf)
     IN IF StrNEq(buf, S_stop, Min(4, count))
        THEN /\ runcount' = 0
             /\ ret' = IF runcount = 0 THEN -EINVAL ELSE 0
             /\ g_stop' = IF runcount # 0 THEN 2 ELSE IF g_stop = 2 THEN 2 ELSE 1
             /\ UNCHANGED <<cpc, g_req, g_first, g_per, g_fires, g_samples,
                            g_prev, t_cur>>
        ELSE IF StrNEq(buf, S_infinite, Min(8, count))
        THEN IF runcount # 0
             THEN /\ ret' = -EINVAL
                  /\ UNCHANGED <<runcount, cpc, runVars, g_fires, g_samples,
                                 g_prev, t_cur>>
             ELSE /\ runcount' = -1
                  /\ cpc' = "start_last"
                  /\ NewRun(-1)
                  /\ UNCHANGED ret
        ELSE IF runcount # 0 \/ ~n[1] \/ n[2] <= 0
        THEN /\ ret' = -EINVAL
             /\ UNCHANGED <<runcount, cpc, runVars, g_fires, g_samples,
                            g_prev, t_cur>>
        ELSE /\ runcount' = n[2]
             /\ cpc' = "start_last"
             /\ NewRun(n[2])
             /\ UNCHANGED ret
  /\ UNCHANGED <<restVars, clockVars, period_ms, last_now_ns, cfgVars, statVars, histogram,
                 hrVars, tpc, t_now_ns, t_period_kt, t_diff_ns, t_rc, t_exp0, nfires>>

\* store_control_cb, lines 285-309: the command is parsed and runcount set
store_control_cb(buf) ==
  /\ cpc = "idle"
  /\ ncmds < MaxCmds
  /\ ncmds' = ncmds + 1
  /\ lastcmd' = "control"
  /\ LET count == Len(buf)
         n == kstrtoint(buf)
     IN IF StrNEq(buf, S_stop, Min(4, count))
        THEN /\ runcount' = 0
             /\ ret' = 0
             /\ g_stop' = IF runcount # 0 THEN 2 ELSE IF g_stop = 2 THEN 2 ELSE 1
             /\ UNCHANGED <<cpc, g_req, g_first, g_per, g_fires, g_samples,
                            g_prev, t_cur>>
        ELSE IF StrNEq(buf, S_infinite, Min(8, count))
        THEN IF runcount # 0
             THEN /\ ret' = -EINVAL
                  /\ UNCHANGED <<runcount, cpc, runVars, g_fires, g_samples,
                                 g_prev, t_cur>>
             ELSE /\ runcount' = -1
                  /\ cpc' = "start_last"
                  /\ NewRun(-1)
                  /\ UNCHANGED ret
        ELSE IF runcount # 0 \/ ~n[1] \/ n[2] <= 0
        THEN /\ ret' = -EINVAL
             /\ UNCHANGED <<runcount, cpc, runVars, g_fires, g_samples,
                            g_prev, t_cur>>
        ELSE /\ runcount' = n[2]
             /\ cpc' = "start_last"
             /\ NewRun(n[2])
             /\ UNCHANGED ret
  /\ UNCHANGED <<restVars, clockVars, period_ms, last_now_ns, cfgVars, statVars, histogram,
                 hrVars, tpc, t_now_ns, t_period_kt, t_diff_ns, t_rc, t_exp0, nfires>>

\* line 311
Start_Last ==
  /\ cpc = "start_last"
  /\ last_now_ns' = 0
  /\ cpc' = "start_stats"
  /\ UNCHANGED <<restVars, clockVars, period_ms, runcount, cfgVars, statVars, histogram,
                 hrVars, tpc, tLocals, ctlVars, nfires, runVars, g_fires, g_samples,
                 g_prev>>

\* lines 313-317
Start_Stats ==
  /\ cpc = "start_stats"
  /\ stat_min' = LLONG_MAX
  /\ stat_max' = LLONG_MIN
  /\ stat_num' = 0
  /\ stat_sum' = 0
  /\ stat_sumsq' = 0
  /\ cpc' = "start_hist"
  /\ UNCHANGED <<restVars, clockVars, period_ms, runcount, last_now_ns, cfgVars, histogram,
                 hrVars, tpc, tLocals, ctlVars, nfires, runVars, g_fires, g_samples,
                 g_prev>>

\* line 318
Start_Hist ==
  /\ cpc = "start_hist"
  /\ histogram' = ZeroHistogram
  /\ cpc' = "start_arm"
  /\ UNCHANGED <<restVars, clockVars, period_ms, runcount, last_now_ns, cfgVars, statVars,
                 hrVars, tpc, tLocals, ctlVars, nfires, runVars, g_fires, g_samples,
                 g_prev>>

\* lines 321-324: hrtimer_start() queues the timer at now + period
Start_Arm ==
  /\ cpc = "start_arm"
  /\ hr_expires' = now + period_ms * NsPerMs
  /\ hr_enqueued' = TRUE
  /\ ret' = 0
  /\ cpc' = "idle"
  /\ g_first' = now + period_ms * NsPerMs
  /\ g_per' = period_ms * NsPerMs
  /\ UNCHANGED <<restVars, clockVars, period_ms, runcount, last_now_ns, cfgVars, statVars,
                 histogram, tpc, tLocals, lastcmd, ncmds, nfires, g_req, g_stop,
                 g_fires, g_samples, g_prev>>

\* store_config_cb, lines 337-343: not implemented, changes nothing
store_config_cb(buf) ==
  /\ cpc = "idle"
  /\ ncmds < MaxCmds
  /\ ncmds' = ncmds + 1
  /\ lastcmd' = "config"
  /\ ret' = IF runcount # 0 THEN -EINVAL ELSE 0
  /\ UNCHANGED <<restVars, clockVars, period_ms, runcount, last_now_ns, cfgVars, statVars,
                 histogram, hrVars, tpc, tLocals, cpc, nfires, runVars,
                 g_fires, g_samples, g_prev>>

\* ------------------------------------------------------------ specification
\* ------------------------------------------------------------ sysfs show
\* what div_ll may return: its quotient, or whatever a division by zero leaves
DivByZeroResults == {-1, 0, 1}
DivLLResults(n, base) ==
  IF do_div_base(Abs(base)) = 0 THEN DivByZeroResults ELSE {div_ll(n, base)}

\* show_statistics_cb, lines 348-366: the test of stat_num
show_statistics_cb ==
  /\ cpc = "idle"
  /\ ncmds < MaxCmds
  /\ ncmds' = ncmds + 1
  /\ lastcmd' = "statistics"
  /\ ret' = 0
  /\ s_tmp' = 0
  /\ r_min' = 0 /\ r_max' = 0 /\ r_num' = 0 /\ r_sum' = 0 /\ r_sumsq' = 0
  /\ r_mean' = 0 /\ r_var' = 0 /\ r_stddev' = 0
  /\ r_hist' = ZeroHistogram
  /\ cpc' = IF stat_num > 0 THEN "show_mean" ELSE "show_print"
  /\ UNCHANGED <<fnVars, oldVars, clockVars, period_ms, runcount, last_now_ns, cfgVars, statVars,
                 histogram, hrVars, tpc, tLocals, nfires, runVars, g_fires,
                 g_samples, g_prev>>

\* the variables a step of show_statistics_cb leaves alone besides its own
ShowFrame ==
  UNCHANGED <<fnVars, oldVars, clockVars, period_ms, runcount, last_now_ns, cfgVars, statVars,
              histogram, hrVars, tpc, tLocals, ctlVars, nfires, runVars, g_fires,
              g_samples, g_prev>>

\* line 358
Show_Mean ==
  /\ cpc = "show_mean"
  /\ r_mean' \in DivLLResults(stat_sum, stat_num)
  /\ cpc' = "show_var"
  /\ UNCHANGED <<s_tmp, r_min, r_max, r_num, r_sum, r_sumsq, r_var, r_stddev, r_hist>>
  /\ ShowFrame

\* line 360, the operands of the subtraction are read in either order: here
\* stat_sumsq first
Show_VarSumsqFirst ==
  /\ cpc = "show_var"
  /\ s_tmp' = stat_sumsq
  /\ cpc' = "show_var_inner"
  /\ UNCHANGED <<r_min, r_max, r_num, r_sum, r_mean, r_sumsq, r_var, r_stddev, r_hist>>
  /\ ShowFrame

\* line 360, here the inner div_ll first
Show_VarInnerFirst ==
  /\ cpc = "show_var"
  /\ s_tmp' \in DivLLResults(MulLL(stat_sum, stat_sum), stat_num)
  /\ cpc' = "show_var_outer"
  /\ UNCHANGED <<r_min, r_max, r_num, r_sum, r_mean, r_sumsq, r_var, r_stddev, r_hist>>
  /\ ShowFrame

\* lines 360-361: the rest of the variance, and the standard deviation
Show_Var ==
  /\ cpc \in {"show_var_inner", "show_var_outer"}
  /\ \E inner \in IF cpc = "show_var_inner"
                   THEN DivLLResults(MulLL(stat_sum, stat_sum), stat_num)
                   ELSE {s_tmp} :
       LET sumsq == IF cpc = "show_var_inner" THEN s_tmp ELSE stat_sumsq
       IN r_var' \in DivLLResults(WrapLL(sumsq - inner), stat_num)
  /\ r_stddev' = ToLL(isqrtu64(ToU64(r_var')))
  /\ s_tmp' = 0
  /\ cpc' = "show_print"
  /\ UNCHANGED <<r_min, r_max, r_num, r_sum, r_mean, r_sumsq, r_hist>>
  /\ ShowFrame

\* lines 368-375: the statistics are printed
Show_Print ==
  /\ cpc = "show_print"
  /\ r_min' = stat_min
  /\ r_max' = stat_max
  /\ r_num' = stat_num
  /\ r_sum' = stat_sum
  /\ r_sumsq' = stat_sumsq
  /\ cpc' = "show_hist"
  /\ UNCHANGED <<s_tmp, r_mean, r_var, r_stddev, r_hist>>
  /\ ShowFrame

\* lines 377-382: the bins 0..hist_bin_num-1 are printed
Show_Hist ==
  /\ cpc = "show_hist"
  /\ r_hist' = [i \in 0..(HIST_BIN_MAX - 1) |->
                  IF i < hist_bin_num THEN histogram[i] ELSE 0]
  /\ cpc' = "idle"
  /\ UNCHANGED <<s_tmp, r_min, r_max, r_num, r_sum, r_mean, r_sumsq, r_var, r_stddev>>
  /\ ShowFrame

Next ==
  \/ \E d \in Delays : Tick(d)
  \/ WaitDeadline
  \/ Fire_Begin
  \/ Fire_Enter
  \/ Fire_Stats
  \/ Fire_Hist
  \/ Fire_Last
  \/ Fire_RunTest
  \/ Fire_DecRead
  \/ Fire_DecWrite
  \/ Fire_Zero
  \/ \E buf \in PeriodInputs : store_period_cb(buf)
  \/ \E buf \in ControlInputs : store_control_cb(buf)
  \/ Start_Last
  \/ Start_Stats
  \/ Start_Hist
  \/ Start_Arm
  \/ \E buf \in ConfigInputs : store_config_cb(buf)

Spec == Init /\ [][Next]_vars

\* ------------------------------------------------------------ runs that are read or stopped
\* the commands that start and end a run
RunInputs == { S_stop, S_infinite, <<"2", "\n">> }

\* the timer and the control attribute
NextRun ==
  \/ \E d \in Delays : Tick(d)
  \/ WaitDeadline
  \/ Fire_Begin
  \/ Fire_Enter
  \/ Fire_Stats
  \/ Fire_Hist
  \/ Fire_Last
  \/ Fire_RunTest
  \/ Fire_DecRead
  \/ Fire_DecWrite
  \/ Fire_Zero
  \/ \E buf \in RunInputs : store_control_cb(buf)
  \/ Start_Last
  \/ Start_Stats
  \/ Start_Hist
  \/ Start_Arm

\* the statistics attribute read while the timer runs
NextShow ==
  \/ NextRun
  \/ show_statistics_cb
  \/ Show_Mean
  \/ Show_VarSumsqFirst
  \/ Show_VarInnerFirst
  \/ Show_Var
  \/ Show_Print
  \/ Show_Hist

SpecShow == Init /\ [][NextShow]_vars

\* ------------------------------------------------------------ properties
\* what the texts written to the attributes are meant to say
PeriodValueOf(buf) ==
  CASE buf = <<"0">> -> 0
    [] buf = <<"1", "0", "\n">> -> 10
    [] buf = <<"1", "0", "0", "0">> -> 1000
    [] buf = <<"1", "0", "0", "1">> -> 1001
    [] OTHER -> -1

ControlMeaning(buf) ==
  CASE buf = S_stop -> [kind |-> "stop", n |-> 0]
    [] buf = S_infinite -> [kind |-> "infinite", n |-> 0]
    [] buf = <<"1", "\n">> -> [kind |-> "finite", n |-> 1]
    [] buf = <<"0", "\n">> -> [kind |-> "finite", n |-> 0]
    [] buf = <<"-", "1">> -> [kind |-> "finite", n |-> -1]
    [] OTHER -> [kind |-> "malformed", n |-> 0]

RECURSIVE SumBins(_, _)
SumBins(h, n) == IF n = 0 THEN 0 ELSE SumBins(h, n - 1) + h[n - 1]

\* the timer function returns HRTIMER_RESTART in this step
ReturnsRestart ==
  /\ tpc' = "idle"
  /\ tpc = "dec_wr" \/ (tpc = "zero" /\ runcount # 0)

\* C1: after an accepted Finite(n), n >= 1, and no stop, the timer function
\* fires exactly n times; after the n-th firing the sampler is idle, no firing
\* is pending and the statistics hold n - 1 samples.
C1_FiniteRunFiresN ==
  (g_req >= 1 /\ g_stop = 0) =>
    /\ g_fires <= g_req
    /\ (g_fires = g_req /\ tpc = "idle") =>
         (runcount = 0 /\ ~hr_enqueued /\ stat_num = g_req - 1)

\* C2: once a stop issued while running has returned, no later firing executes
\* and the statistics and the histogram stay as they are until the next
\* accepted start.
C2_StopCancelsPending ==
  [][(g_stop = 2 /\ tpc = "idle") =>
       (tpc' = "idle" /\ UNCHANGED <<statVars, histogram>>)]_vars

\* C3: a firing left over from the previous run never executes during or after
\* start's reset: no firing begins while store_control_cb is between its reset
\* of last_now_ns and its return, and a firing that began before the start
\* returned takes no step once that reset has begun.
C3_NoLeftoverFiringDuringReset ==
  [][tpc' # tpc =>
       IF tpc = "idle"
       THEN cpc \notin {"start_stats", "start_hist", "start_arm"}
       ELSE t_cur \/ cpc = "start_last"]_vars

\* C4: the first firing of a run records no sample; every later firing records
\* one sample, (now - time of the previous firing of the run) - period; each
\* firing then stores now as last_now_ns. A firing counts as the first of its
\* run when it is the only one begun since the start was accepted.
C4_JitterAgainstPreviousFiring ==
  [][/\ (tpc = "stats" /\ tpc' # "stats" /\ t_cur /\ g_prev = 0 /\ g_fires = 1) =>
          (tpc' = "last" /\ UNCHANGED statVars)
     /\ (tpc = "stats" /\ tpc' # "stats" /\ t_cur /\ g_prev # 0) =>
          /\ tpc' = "hist"
          /\ stat_num' = stat_num + 1
          /\ t_diff_ns' = (t_now_ns - g_prev) - period_ms * NsPerMs
     /\ (tpc = "last" /\ tpc' = "run") => last_now_ns' = t_now_ns]_vars

\* C5: a firing that reschedules moves the deadline by k periods, k >= 1 the
\* smallest that makes it not earlier than the firing's now; every deadline of
\* a run is the first deadline plus a whole number of periods.
C5_DriftFree ==
  [][ReturnsRestart =>
       LET P == t_period_kt
           late == t_now_ns - t_exp0
           k == IF P = 0 \/ late <= P THEN 1 ELSE (late + P - 1) \div P
       IN /\ hr_expires' = t_exp0 + k * P
          /\ hr_expires' >= t_now_ns
          /\ g_first # 0 =>
               IF g_per = 0 THEN hr_expires' = g_first
               ELSE hr_expires' >= g_first /\ (hr_expires' - g_first) % g_per = 0]_vars

\* C6: a write to the period attribute is accepted, and sets the period to the
\* value written, exactly when the sampler is stopped and the value is a number
\* not above 1000; every other write is refused and leaves the period alone.
C6_Post(buf) ==
  LET ms == PeriodValueOf(buf)
  IN IF runcount = 0 /\ ms >= 0 /\ ms <= 1000
     THEN ret' = 0 /\ period_ms' = ms
     ELSE ret' = -EINVAL /\ period_ms' = period_ms

C6_SetPeriodIffIdleAndInRange ==
  [][lastcmd' = "period" =>
       \A buf \in PeriodInputs : store_period_cb(buf) => C6_Post(buf)]_vars

C6_PeriodRefusedWhileRunning ==
  /\ lastcmd = "period"
  /\ ret = -EINVAL
  /\ runcount # 0
  /\ period_ms = DefaultPeriodMs

\* C7: a start command written while the sampler is running, and a count that
\* is not positive written in any state, is refused and leaves runcount, the
\* statistics, the histogram, last_now_ns and the armed timer alone.
C7_Failing(buf) ==
  LET c == ControlMeaning(buf)
  IN \/ c.kind \in {"infinite", "finite"} /\ runcount # 0
     \/ c.kind = "finite" /\ c.n <= 0

C7_RefusedStartChangesNothing ==
  [][\A buf \in ControlInputs :
       (C7_Failing(buf) /\ store_control_cb(buf)) =>
         /\ ret' = -EINVAL
         /\ cpc' = "idle"
         /\ UNCHANGED <<runcount, last_now_ns, statVars, histogram, hrVars>>]_vars

C7_StartRefusedWhileRunning ==
  /\ lastcmd = "control"
  /\ ret = -EINVAL
  /\ runcount # 0
  /\ hr_enqueued
  /\ ncmds = 2

\* C8: when an accepted start returns, the statistics are reset (count, sum and
\* sum of squares 0, min LLONG_MAX, max LLONG_MIN), all 256 histogram entries
\* are 0, last_now_ns is 0, runcount is the requested mode and exactly one
\* firing is armed at now + period.
C8_StartPostState ==
  [][(cpc = "start_arm" /\ cpc' = "idle") =>
       /\ stat_num' = 0
       /\ stat_sum' = 0
       /\ stat_sumsq' = 0
       /\ stat_min' = LLONG_MAX
       /\ stat_max' = LLONG_MIN
       /\ \A i \in 0..(HIST_BIN_MAX - 1) : histogram'[i] = 0
       /\ last_now_ns' = 0
       /\ runcount' = g_req
       /\ hr_enqueued'
       /\ hr_expires' = now + period_ms' * NsPerMs]_vars

\* C9: whenever no firing is in progress, the histogram bins 0..hist_bin_num-1
\* sum up to stat_num, which counts only samples recorded since the last
\* accepted start.
C9_BinsSumToCount ==
  (tpc = "idle" /\ cpc = "idle") =>
    /\ SumBins(histogram, hist_bin_num) = stat_num
    /\ stat_num <= g_samples

\* C10: recording a sample adds 1 to exactly one bin and leaves the others
\* alone: bin 0 below the lower bound of bin 1, the last bin from its lower
\* bound on, else the bin whose bounds enclose the sample; with 20 bins of
\* width 1000 a jitter of 0 lands in bin 10 and one of 300000 in bin 19.
C10_Bin(jitter, num, width) ==
  IF jitter < HIST_BIN_LOW(1, num, width) THEN 0
  ELSE IF jitter >= HIST_BIN_LOW(num - 1, num, width) THEN num - 1
  ELSE CHOOSE idx \in 0..(num - 1) :
         /\ HIST_BIN_LOW(idx, num, width) <= jitter
         /\ jitter < HIST_BIN_LOW(idx, num, width) + width

\* the bin the code picks is the bin of the rule, at and next to every bin
\* bound of some small histograms
C10_BinsAgree ==
  /\ HistBin(0, 20, 1000) = 10
  /\ HistBin(300000, 20, 1000) = 19
  /\ \A num \in {1, 2, 3, 19, 20}, width \in {1, 2, 3, 1000}, j \in -12..12 :
       \A x \in {j * width - 1, j * width, j * width + (width \div 2) - 1,
                 j * width + (width \div 2)} :
         HistBin(x, num, width) = C10_Bin(x, num, width)

C10_OneBinPerSample ==
  [][(tpc = "hist" /\ tpc' = "last") =>
       /\ histogram' = [histogram EXCEPT
            ![C10_Bin(t_diff_ns, hist_bin_num, hist_bin_width)] = @ + 1]
       /\ C10_BinsAgree]_vars

C10_SampleClampedIntoLastBin ==
  /\ tpc = "last"
  /\ t_diff_ns >= 10000
  /\ histogram[DefaultBinNum - 1] >= 1
  /\ stat_num >= 1

\* ------------------------------------------------------------ HIST_BIN_LOW on its own
\* the lower bound of one bin of one histogram layout is computed
InitBinLow ==
  /\ LoadedModule
  /\ NoReport
  /\ OldExtremes
  /\ f_op = "HIST_BIN_LOW"
  /\ \E num \in 1..HIST_BIN_MAX, width \in 1..MaxBinWidth :
       \E i \in 0..(num - 1) : f_arg = <<i, num, width>>
  /\ f_done = FALSE
  /\ f_res = 0

ApplyBinLow ==
  /\ f_op = "HIST_BIN_LOW"
  /\ ~f_done
  /\ f_res' = HIST_BIN_LOW(f_arg[1], f_arg[2], f_arg[3])
  /\ f_done' = TRUE
  /\ UNCHANGED <<oldVars, clockVars, period_ms, runcount, last_now_ns, cfgVars, statVars,
                 histogram, hrVars, tpc, tLocals, cpc, ctlVars, nfires, runVars,
                 g_fires, g_samples, g_prev, f_op, f_arg, showVars>>

NextBinLow == ApplyBinLow

SpecBinLow == InitBinLow /\ [][NextBinLow]_vars

\* the lower bound of bin f_arg[1] has been computed
BinLowDone == f_op = "HIST_BIN_LOW" /\ f_done

\* C11: with an even number of bins the lower bound of bin num/2 is 0; with an
\* odd number the lower bound of bin (num-1)/2 is -(width div 2), for every
\* number of bins in 1..256 and every width > 0.
C11_MiddleBinAtMinusHalfWidth ==
  BinLowDone =>
    LET i == f_arg[1]  num == f_arg[2]  width == f_arg[3]
    IN /\ (num % 2 = 0 /\ i = num \div 2) => f_res = 0
       /\ (num % 2 = 1 /\ i = (num - 1) \div 2) => f_res = -(width \div 2)

\* C11, as the code has it: with an even number of bins the lower bound of bin
\* num/2 is 0; with an odd number the lower bound of bin (num-1)/2 is
\* (width div 2) - width, so that the bin ends below (width div 2); this is
\* -(width div 2) exactly when the width is even.
C11_MiddleBinEndsAtHalfWidth ==
  BinLowDone =>
    LET i == f_arg[1]  num == f_arg[2]  width == f_arg[3]
    IN /\ (num % 2 = 0 /\ i = num \div 2) => f_res = 0
       /\ (num % 2 = 1 /\ i = (num - 1) \div 2) =>
            /\ f_res = (width \div 2) - width
            /\ f_res + width = width \div 2
            /\ (f_res = -(width \div 2)) <=> (width % 2 = 0)

C11_OddBinsOddWidth ==
  /\ BinLowDone
  /\ f_arg = <<9, 19, 3>>
  /\ f_res = -2

\* C12: consecutive bins are one bin width apart: the lower bound of bin i+1
\* minus that of bin i is the width, for every i in 0..num-2, for even and odd
\* numbers of bins.
C12_BinsOneWidthApart ==
  (BinLowDone /\ f_arg[1] <= f_arg[2] - 2) =>
    HIST_BIN_LOW(f_arg[1] + 1, f_arg[2], f_arg[3]) - f_res = f_arg[3]

C12_LastStepOfOddLayout ==
  /\ BinLowDone
  /\ f_arg = <<253, 255, 3>>
  /\ HIST_BIN_LOW(254, 255, 3) - f_res = 3

\* ------------------------------------------------------------ div_ll on its own
\* dividends and divisors below, at and above the range of the base of do_div
DivMagnitudes ==
  {1, 2, 3, 7, 1000, DoDivBase - 1, DoDivBase, DoDivBase + 1, 2 * DoDivBase + 3}

DivOperands == {0} \cup DivMagnitudes \cup {-m : m \in DivMagnitudes}

InitDivLL ==
  /\ LoadedModule
  /\ NoReport
  /\ OldExtremes
  /\ f_op = "div_ll"
  /\ \E n \in DivOperands, d \in DivOperands \ {0} : f_arg = <<n, d>>
  /\ f_done = FALSE
  /\ f_res = 0

ApplyDivLL ==
  /\ f_op = "div_ll"
  /\ ~f_done
  /\ f_res' \in DivLLResults(f_arg[1], f_arg[2])
  /\ f_done' = TRUE
  /\ UNCHANGED <<oldVars, clockVars, period_ms, runcount, last_now_ns, cfgVars, statVars,
                 histogram, hrVars, tpc, tLocals, cpc, ctlVars, nfires, runVars,
                 g_fires, g_samples, g_prev, f_op, f_arg, showVars>>

NextDivLL == ApplyDivLL

SpecDivLL == InitDivLL /\ [][NextDivLL]_vars

\* C13: div_ll(n, d), d # 0, is the quotient truncated toward zero, q with
\* q*d + r = n, |r| < |d| and r zero or of the sign of n, also for divisors
\* whose magnitude does not fit the base of do_div; div_ll(-7, 2) = -3 and
\* div_ll(7, -2) = -3.
C13_DivLLTruncatesTowardZero ==
  (f_op = "div_ll" /\ f_done) =>
    LET n == f_arg[1]
        d == f_arg[2]
        r == n - f_res * d
    IN /\ Abs(r) < Abs(d)
       /\ r = 0 \/ (r < 0) = (n < 0)
       /\ (n = -7 /\ d = 2) => f_res = -3
       /\ (n = 7 /\ d = -2) => f_res = -3

\* ------------------------------------------------------------ isqrtu64 on its own
InitIsqrt ==
  /\ LoadedModule
  /\ NoReport
  /\ OldExtremes
  /\ f_op = "isqrtu64"
  /\ \E x \in 0..IsqrtMaxInput : f_arg = <<x>>
  /\ f_done = FALSE
  /\ f_res = 0

ApplyIsqrt ==
  /\ f_op = "isqrtu64"
  /\ ~f_done
  /\ f_res' = isqrtu64(f_arg[1])
  /\ f_done' = TRUE
  /\ UNCHANGED <<oldVars, clockVars, period_ms, runcount, last_now_ns, cfgVars, statVars,
                 histogram, hrVars, tpc, tLocals, cpc, ctlVars, nfires, runVars,
                 g_fires, g_samples, g_prev, f_op, f_arg, showVars>>

NextIsqrt == ApplyIsqrt

SpecIsqrt == InitIsqrt /\ [][NextIsqrt]_vars

\* C14: for x in 0..10000 isqrtu64(x) returns the integer nearest to the square
\* root of x: 0 for 0, else the r with r*r - r < x <= r*r + r; the roots of
\* 2, 3, 4, 6, 7, 8, 9 are 1, 2, 2, 2, 3, 3, 3.
C14_IsqrtRoundsToNearest ==
  (f_op = "isqrtu64" /\ f_done) =>
    LET x == f_arg[1]
        r == f_res
    IN /\ r >= 0
       /\ x = 0 => r = 0
       /\ x > 0 => (r * r - r < x /\ x <= r * r + r)
       /\ x = 2 => r = 1
       /\ x \in {3, 4, 6} => r = 2
       /\ x \in {7, 8, 9} => r = 3

C14_RootOfSevenRoundedUp ==
  /\ f_op = "isqrtu64"
  /\ f_done
  /\ f_arg = <<7>>
  /\ f_res = 3

\* ------------------------------------------------------------ reports
\* show_statistics_cb has returned its report
ReportDone == lastcmd = "statistics" /\ cpc = "idle"

\* C15: every report of the statistics shows values of one and the same state
\* between two firings: the reported bins sum to the reported count, and the
\* reported mean and variance are those of the reported count, sum and sum of
\* squares.
C15_ReportIsOneSnapshot ==
  ReportDone =>
    /\ SumBins(r_hist, hist_bin_num) = r_num
    /\ IF r_num > 0
       THEN /\ r_mean = div_ll(r_sum, r_num)
            /\ r_var = div_ll(WrapLL(r_sumsq - div_ll(MulLL(r_sum, r_sum), r_num)), r_num)
       ELSE r_mean = 0 /\ r_var = 0

\* what the texts written to the config attribute are meant to say: a number
\* of bins and a bin width
ConfigMeaning(buf) ==
  CASE buf = <<"5", " ", "2">> -> [ok |-> TRUE, num |-> 5, width |-> 2]
    [] buf = <<"0", " ", "2">> -> [ok |-> TRUE, num |-> 0, width |-> 2]
    [] OTHER -> [ok |-> FALSE, num |-> 0, width |-> 0]

\* C16: a write to the config attribute while stopped, with 1..256 bins of a
\* width > 0, is accepted, sets hist_bin_num and hist_bin_width to the values
\* written and clears all bins; while running, or with a value out of bounds,
\* it is refused and leaves the configuration and the bins alone.
C16_ConfigSetsBinsWhenStopped ==
  [][lastcmd' = "config" =>
       \A buf \in ConfigInputs :
         store_config_cb(buf) =>
           LET c == ConfigMeaning(buf)
           IN IF runcount = 0 /\ c.ok /\ c.num >= 1 /\ c.num <= HIST_BIN_MAX /\ c.width > 0
              THEN /\ ret' = 0
                   /\ hist_bin_num' = c.num
                   /\ hist_bin_width' = c.width
                   /\ histogram' = ZeroHistogram
              ELSE /\ ret' = -EINVAL
                   /\ UNCHANGED <<cfgVars, histogram>>]_vars

\* C17: the reported standard deviation is the rounded square root of the
\* reported variance, a negative variance counting as 0: it is never taken as
\* a large unsigned value.
C17_StddevOfClampedVariance ==
  ReportDone =>
    r_stddev = isqrtu64(IF r_var < 0 THEN 0 ELSE r_var)

\* the texts that store_control_cb takes for "stop" (line 289)
C18_IsStop(buf) == StrNEq(buf, S_stop, Min(4, Len(buf)))

\* C18: "stop" is accepted in every state and only ever clears runcount: on a
\* stopped module with no firing pending it returns success and changes
\* nothing, and so a second "stop" leaves the state the first one left.
C18_StopIsIdempotent ==
  [][lastcmd' = "control" =>
       \A buf \in ControlInputs :
         (C18_IsStop(buf) /\ store_control_cb(buf)) =>
           /\ ret' = 0
           /\ runcount' = 0
           /\ UNCHANGED <<period_ms, last_now_ns, cfgVars, statVars, histogram,
                          hrVars, tpc, tLocals, cpc, clockVars>>]_vars

\* a second command, "stop", has returned on a stopped module with no firing
\* pending
C18_StoppedModuleStoppedAgain ==
  /\ lastcmd = "control"
  /\ ncmds = 2
  /\ g_stop = 1
  /\ ret = 0
  /\ runcount = 0
  /\ cpc = "idle"
  /\ tpc = "idle"
  /\ ~hr_enqueued

\* C19: a period is never accepted while a firing is pending or in progress,
\* so the period cannot change between the arming of the first firing of a
\* run and the completion of its last one.
C19_PeriodFixedWhileFiringsRemain ==
  [][(lastcmd' = "period" /\ ncmds' = ncmds + 1 /\ ret' = 0) =>
       (~hr_enqueued /\ tpc = "idle")]_vars

\* ------------------------------------------------------------ stop against the timer
SpecStopRace == Init /\ [][NextRun]_vars

\* C20: a "stop" is never lost: from its return until the next accepted start
\* runcount reads 0, whatever the timer callback was doing meanwhile.
C20_StopIsNeverLost ==
  g_stop # 0 => runcount = 0

\* ------------------------------------------------------------ the statistics, statement by statement
\* lines 198-206: the jitter, then stat_min and stat_max
Fire_MinMax ==
  /\ tpc = "stats"
  /\ IF last_now_ns # 0
     THEN LET diff_ns == (t_now_ns - last_now_ns) - period_ms * NsPerMs
          IN /\ stat_min' = IF diff_ns < stat_min THEN diff_ns ELSE stat_min
             /\ stat_max' = IF diff_ns > stat_max THEN diff_ns ELSE stat_max
             /\ t_diff_ns' = diff_ns
             /\ tpc' = "sums"
     ELSE /\ tpc' = "last"
          /\ UNCHANGED <<stat_min, stat_max, t_diff_ns>>
  /\ UNCHANGED <<restVars, clockVars, period_ms, runcount, last_now_ns, cfgVars, histogram,
                 stat_num, stat_sum, stat_sumsq, g_samples,
                 hrVars, t_now_ns, t_period_kt, t_rc, t_cur, t_exp0,
                 cpc, ctlVars, nfires, runVars, g_fires, g_prev>>

\* lines 207-209: stat_num, stat_sum and stat_sumsq
Fire_Sums ==
  /\ tpc = "sums"
  /\ stat_num' = stat_num + 1
  /\ stat_sum' = WrapLL(stat_sum + t_diff_ns)
  /\ stat_sumsq' = WrapLL(stat_sumsq + MulLL(t_diff_ns, t_diff_ns))
  /\ g_samples' = g_samples + 1
  /\ tpc' = "hist"
  /\ UNCHANGED <<restVars, clockVars, period_ms, runcount, last_now_ns, cfgVars, histogram,
                 stat_min, stat_max, hrVars, tLocals,
                 cpc, ctlVars, nfires, runVars, g_fires, g_prev>>

NextRecord ==
  \/ \E d \in Delays : Tick(d)
  \/ WaitDeadline
  \/ Fire_Begin
  \/ Fire_Enter
  \/ Fire_MinMax
  \/ Fire_Sums
  \/ Fire_Hist
  \/ Fire_Last
  \/ Fire_RunTest
  \/ Fire_DecRead
  \/ Fire_DecWrite
  \/ Fire_Zero
  \/ \E buf \in RunInputs : store_control_cb(buf)
  \/ Start_Last
  \/ Start_Stats
  \/ Start_Hist
  \/ Start_Arm

SpecRecord == Init /\ [][NextRecord]_vars

\* no firing and no store is under way
Quiescent == tpc = "idle" /\ cpc = "idle"

\* C21: the statistics are those of the samples recorded since the last
\* accepted start: with none, stat_min is LLONG_MAX, stat_max is LLONG_MIN and
\* the sums are 0; with stat_num of them, stat_min and stat_max are the least
\* and the greatest of them, so stat_min <= stat_max and stat_sum lies between
\* stat_num times one and stat_num times the other. This holds whichever
\* moment of the start the samples are counted from.
C21_StatisticsOfRecordedSamples ==
  (Quiescent /\ g_req # 0) =>
    IF stat_num = 0
    THEN /\ stat_min = LLONG_MAX
         /\ stat_max = LLONG_MIN
         /\ stat_sum = 0
         /\ stat_sumsq = 0
    ELSE /\ stat_min <= stat_max
         /\ stat_num * stat_min <= stat_sum
         /\ stat_sum <= stat_num * stat_max

\* ------------------------------------------------------------ malformed commands
\* a text that is neither "stop" nor "infinite" nor a count above 0
C22_Malformed(buf) ==
  LET c == ControlMeaning(buf)
  IN \/ c.kind = "malformed"
     \/ c.kind = "finite" /\ c.n <= 0

\* C22: a control write that is neither "stop" nor "infinite" nor a positive
\* decimal count (an empty write, a letter, a proper prefix of a keyword, 0, a
\* negative number) is refused with an error and leaves runcount, the
\* statistics, the histogram, last_now_ns and the timer as they were.
C22_MalformedCommandRefused ==
  [][lastcmd' = "control" =>
       \A buf \in ControlInputs :
         (C22_Malformed(buf) /\ store_control_cb(buf)) =>
           /\ ret' = -EINVAL
           /\ cpc' = "idle"
           /\ UNCHANGED <<runcount, last_now_ns, statVars, histogram, hrVars>>]_vars

\* C23: while a firing is queued or running the period is above 0: no
\* sequence of stores lets a run go with a period of 0 ms.
C23_PeriodPositiveWhileArmed ==
  (hr_enqueued \/ tpc # "idle") => period_ms > 0

\* ------------------------------------------------------------ module exit
\* what lattest_exit leaves alone
exitFrame == <<restVars, clockVars, period_ms, runcount, last_now_ns, cfgVars, statVars,
               histogram, hr_expires, tpc, tLocals, ctlVars, nfires, runVars, g_fires,
               g_samples, g_prev>>

\* hrtimer_callback_running(&my_hrtimer)
hrtimer_callback_running == tpc # "idle"

\* hrtimer_active(&my_hrtimer): queued, or its callback is running
hrtimer_active == hr_enqueued \/ hrtimer_callback_running

\* hrtimer_is_queued(&my_hrtimer)
hrtimer_is_queued == hr_enqueued

\* lattest_exit is entered, line 444
lattest_exit ==
  /\ cpc = "idle"
  /\ cpc' = "exit_spin"
  /\ UNCHANGED <<exitFrame, hr_enqueued>>

\* lines 446-448: the loop ends when no callback is running
Exit_Spin ==
  /\ cpc = "exit_spin"
  /\ ~hrtimer_callback_running
  /\ cpc' = "exit_active"
  /\ UNCHANGED <<exitFrame, hr_enqueued>>

\* line 452: the test of hrtimer_active
Exit_Active ==
  /\ cpc = "exit_active"
  /\ cpc' = IF hrtimer_active THEN "exit_cancel" ELSE "exit_queued"
  /\ UNCHANGED <<exitFrame, hr_enqueued>>

\* hrtimer_cancel that takes the timer off the queue without waiting for a
\* callback that is running
Exit_Cancel_nowait ==
  /\ cpc = "exit_cancel"
  /\ hr_enqueued' = FALSE
  /\ cpc' = "exit_queued"
  /\ UNCHANGED exitFrame

\* line 453: hrtimer_cancel waits for a running callback to return, then takes
\* the timer off the queue
Exit_Cancel ==
  /\ cpc = "exit_cancel"
  /\ ~hrtimer_callback_running
  /\ hr_enqueued' = FALSE
  /\ cpc' = "exit_queued"
  /\ UNCHANGED exitFrame

\* lines 456-459: a timer that is still queued is cancelled
Exit_Queued ==
  /\ cpc = "exit_queued"
  /\ IF hrtimer_is_queued
     THEN /\ ~hrtimer_callback_running
          /\ hr_enqueued' = FALSE
     ELSE UNCHANGED hr_enqueued
  /\ cpc' = "exited"
  /\ UNCHANGED exitFrame

NextExit ==
  \/ NextRun
  \/ lattest_exit
  \/ Exit_Spin
  \/ Exit_Active
  \/ Exit_Cancel
  \/ Exit_Queued

SpecExit == Init /\ [][NextExit]_vars

\* C24: once lattest_exit is past its timer steps no firing is queued and none
\* is running, whether the module was stopped, in a finite or in an infinite
\* run, and wherever a firing was when the steps were taken; so none runs
\* afterwards.
C24_NoFiringAfterExit ==
  cpc = "exited" => (~hr_enqueued /\ tpc = "idle")

\* an infinite run that had fired was torn down
C24_InfiniteRunTornDown ==
  /\ cpc = "exited"
  /\ runcount = -1
  /\ g_fires >= 1

\* ------------------------------------------------------------ the revision of src/lattest/lattest.c
HIST_BIN_NUM == 20
HIST_BIN_LSBS == 10

\* x >> n on a signed value: the arithmetic shift rounds down
ShiftRight(x, n) == x \div (2 ^ n)

\* lines 108-110: the bin of a sample
OldHistBin(diff_ns) ==
  LET b0 == ShiftRight(diff_ns, HIST_BIN_LSBS) + ShiftRight(HIST_BIN_NUM, 1)
      b1 == IF b0 < 0 THEN 0 ELSE b0
  IN IF b1 > HIST_BIN_NUM - 1 THEN HIST_BIN_NUM - 1 ELSE b1

\* lines 96-101: read the time, store it in last_now_ns, forward the timer
OldFire_Enter ==
  /\ tpc = "enter"
  /\ t_now_ns' = now
  /\ last_now_ns' = now
  /\ t_period_kt' = period_ms * NsPerMs
  /\ hr_expires' = HrtimerForward(hr_expires, hr_enqueued, now, period_ms * NsPerMs)
  /\ tpc' = "old_stats"
  /\ UNCHANGED <<restVars, clockVars, period_ms, runcount, cfgVars, statVars,
                 histogram, hr_enqueued, t_diff_ns, t_rc, t_cur, t_exp0,
                 cpc, ctlVars, nfires, runVars, g_fires, g_samples, g_prev>>

\* lines 102-114: the jitter, the histogram, hist_min and hist_max
OldFire_Stats ==
  /\ tpc = "old_stats"
  /\ IF last_now_ns # 0
     THEN LET diff_ns == (t_now_ns - last_now_ns) - period_ms * NsPerMs
              hist_bin == OldHistBin(diff_ns)
          IN /\ histogram' = [histogram EXCEPT ![hist_bin] = @ + 1]
             /\ hist_min' = IF diff_ns < hist_min THEN diff_ns ELSE hist_min
             /\ hist_max' = IF diff_ns > hist_max THEN diff_ns ELSE hist_max
             /\ t_diff_ns' = diff_ns
             /\ g_samples' = g_samples + 1
     ELSE UNCHANGED <<histogram, hist_min, hist_max, t_diff_ns, g_samples>>
  /\ g_prev' = IF t_cur THEN t_now_ns ELSE g_prev
  /\ tpc' = "run"
  /\ UNCHANGED <<fnVars, showVars, clockVars, period_ms, runcount, last_now_ns, cfgVars,
                 statVars, hrVars, t_now_ns, t_period_kt, t_rc, t_cur, t_exp0,
                 cpc, ctlVars, nfires, runVars, g_fires>>

\* lines 211-218: nothing is reset ("TODO"), hrtimer_start() queues the timer
OldStart_Arm ==
  /\ cpc = "start_stats"
  /\ hr_expires' = now + period_ms * NsPerMs
  /\ hr_enqueued' = TRUE
  /\ ret' = 0
  /\ cpc' = "idle"
  /\ g_first' = now + period_ms * NsPerMs
  /\ g_per' = period_ms * NsPerMs
  /\ UNCHANGED <<restVars, clockVars, period_ms, runcount, last_now_ns, cfgVars, statVars,
                 histogram, tpc, tLocals, lastcmd, ncmds, nfires, g_req, g_stop,
                 g_fires, g_samples, g_prev>>

NextOld ==
  \/ \E d \in Delays : Tick(d)
  \/ WaitDeadline
  \/ Fire_Begin
  \/ OldFire_Enter
  \/ OldFire_Stats
  \/ Fire_RunTest
  \/ Fire_DecRead
  \/ Fire_DecWrite
  \/ Fire_Zero
  \/ \E buf \in RunInputs : store_control_cb(buf)
  \/ Start_Last
  \/ OldStart_Arm

SpecOld == Init /\ [][NextOld]_vars

\* C25: in the revision of src/lattest/lattest.c the first firing after a start
\* records no sample, and every later firing records the jitter
\* (now - time of the previous firing) - period in the histogram, hist_min and
\* hist_max.
C25_OldRevisionJitter ==
  [][(tpc = "old_stats" /\ tpc' # "old_stats" /\ t_cur) =>
       IF g_prev = 0
       THEN g_fires = 1 => UNCHANGED <<histogram, hist_min, hist_max>>
       ELSE LET jitter == (t_now_ns - g_prev) - period_ms * NsPerMs
            IN /\ histogram' = [histogram EXCEPT ![OldHistBin(jitter)] = @ + 1]
               /\ hist_min' = Min(hist_min, jitter)
               /\ hist_max' = IF jitter > hist_max THEN jitter ELSE hist_max]_vars

\* ------------------------------------------------------------ a second process
\* store_control_cb, lines 294-324, called with "infinite" by another process
\* while show_statistics_cb is under way in the first: the whole store in one
\* step
store_control_cb_concurrent ==
  /\ cpc \in {"show_mean", "show_var", "show_var_inner", "show_var_outer",
              "show_print", "show_hist"}
  /\ runcount = 0
  /\ runcount' = -1
  /\ last_now_ns' = 0
  /\ stat_min' = LLONG_MAX
  /\ stat_max' = LLONG_MIN
  /\ stat_num' = 0
  /\ stat_sum' = 0
  /\ stat_sumsq' = 0
  /\ histogram' = ZeroHistogram
  /\ hr_expires' = now + period_ms * NsPerMs
  /\ hr_enqueued' = TRUE
  /\ g_req' = -1
  /\ g_stop' = 0
  /\ g_fires' = 0
  /\ g_samples' = 0
  /\ g_prev' = 0
  /\ g_first' = now + period_ms * NsPerMs
  /\ g_per' = period_ms * NsPerMs
  /\ t_cur' = FALSE
  /\ UNCHANGED <<restVars, clockVars, period_ms, cfgVars, tpc, t_now_ns, t_period_kt,
                 t_diff_ns, t_rc, t_exp0, cpc, ctlVars, nfires>>

NextTwoUsers ==
  \/ NextShow
  \/ store_control_cb_concurrent

SpecTwoUsers == Init /\ [][NextTwoUsers]_vars

\* C26: the bin count is in 1..HIST_BIN_MAX and the bin width above 0; a
\* firing adds to one bin below the bin count; and div_ll is never called with
\* a divisor of 0, neither by a firing (the bin width) nor by
\* show_statistics_cb (stat_num).
C26_BinsAndDivisorsInRange ==
  [][/\ hist_bin_num >= 1 /\ hist_bin_num <= HIST_BIN_MAX /\ hist_bin_width > 0
     /\ (tpc = "hist" /\ tpc' = "last") =>
          /\ hist_bin_width # 0
          /\ \E i \in 0..(hist_bin_num - 1) :
               histogram' = [histogram EXCEPT ![i] = @ + 1]
     /\ (cpc = "show_mean" /\ cpc' = "show_var") => stat_num # 0
     /\ (cpc = "show_var" /\ cpc' = "show_var_outer") => stat_num # 0
     /\ (cpc \in {"show_var_inner", "show_var_outer"} /\ cpc' = "show_print") =>
          stat_num # 0]_vars

\* ------------------------------------------------------------ mean and variance on their own
\* the accumulators after na samples of value a and nb samples of value b,
\* lines 207-209
SamplesNum(a, na, b, nb) == na + nb
SamplesSum(a, na, b, nb) == na * a + nb * b
SamplesSumsq(a, na, b, nb) == na * a * a + nb * b * b

MaxSample == 3
SampleValues == (-MaxSample)..MaxSample
SampleCounts == {0, 1, 2, 3, DoDivBase - 1, DoDivBase, DoDivBase + 1}

\* lines 356-358 and 363: the mean show_statistics_cb reports
MeanResults(num, sum) ==
  IF num > 0 THEN DivLLResults(sum, num) ELSE {0}

\* lines 356-360 and 364: the variance show_statistics_cb reports
VarianceResults(num, sum, sumsq) ==
  IF num > 0
  THEN UNION { DivLLResults(WrapLL(sumsq - inner), num) :
               inner \in DivLLResults(MulLL(sum, sum), num) }
  ELSE {0}

InitMoments ==
  /\ LoadedModule
  /\ NoReport
  /\ OldExtremes
  /\ f_op \in {"mean", "variance"}
  /\ \E a \in SampleValues, b \in SampleValues, na \in SampleCounts, nb \in SampleCounts :
       f_arg = <<a, na, b, nb>>
  /\ f_done = FALSE
  /\ f_res = 0

ApplyMoments ==
  /\ ~f_done
  /\ LET num == SamplesNum(f_arg[1], f_arg[2], f_arg[3], f_arg[4])
         sum == SamplesSum(f_arg[1], f_arg[2], f_arg[3], f_arg[4])
         sumsq == SamplesSumsq(f_arg[1], f_arg[2], f_arg[3], f_arg[4])
     IN f_res' \in IF f_op = "mean" THEN MeanResults(num, sum)
                   ELSE VarianceResults(num, sum, sumsq)
  /\ f_done' = TRUE
  /\ UNCHANGED <<oldVars, clockVars, period_ms, runcount, last_now_ns, cfgVars, statVars,
                 histogram, hrVars, tpc, tLocals, cpc, ctlVars, nfires, runVars,
                 g_fires, g_samples, g_prev, f_op, f_arg, showVars>>

NextMoments == ApplyMoments

SpecMoments == InitMoments /\ [][NextMoments]_vars

\* the sum, its square and the sum of squares of the samples fit a long long:
\* a sum whose square fits is below 2^32 in magnitude, for which DoDivBase
\* stands
MomentsInRange ==
  LET sum == SamplesSum(f_arg[1], f_arg[2], f_arg[3], f_arg[4])
  IN /\ Abs(sum) <= DoDivBase \div 2
     /\ sum * sum <= LLONG_MAX
     /\ SamplesSumsq(f_arg[1], f_arg[2], f_arg[3], f_arg[4]) <= LLONG_MAX

\* C27: while the sum, its square and the sum of squares fit a long long, the
\* variance show_statistics_cb computes is not negative, and it is 0 when there
\* is no sample or when all samples are equal.
C27_VarianceNotNegative ==
  (f_op = "variance" /\ f_done /\ MomentsInRange) =>
    /\ f_res >= 0
    /\ (SamplesNum(f_arg[1], f_arg[2], f_arg[3], f_arg[4]) = 0
        \/ f_arg[1] = f_arg[3] \/ f_arg[2] = 0 \/ f_arg[4] = 0) => f_res = 0

\* the least and the greatest of na samples of value a and nb of value b:
\* stat_min and stat_max after them, lines 205-206
SamplesMin(a, na, b, nb) ==
  IF na = 0 THEN b ELSE IF nb = 0 THEN a ELSE IF a < b THEN a ELSE b

SamplesMax(a, na, b, nb) ==
  IF na = 0 THEN b ELSE IF nb = 0 THEN a ELSE IF a > b THEN a ELSE b

\* C28: with at least one sample and no overflow the mean that
\* show_statistics_cb reports, div_ll(stat_sum, stat_num), lies between
\* stat_min and stat_max; with no sample it is 0.
C28_MeanBetweenMinAndMax ==
  (f_op = "mean" /\ f_done /\ MomentsInRange) =>
    IF SamplesNum(f_arg[1], f_arg[2], f_arg[3], f_arg[4]) = 0
    THEN f_res = 0
    ELSE /\ SamplesMin(f_arg[1], f_arg[2], f_arg[3], f_arg[4]) <= f_res
         /\ f_res <= SamplesMax(f_arg[1], f_arg[2], f_arg[3], f_arg[4])

====
